---------------------------- MODULE Spec2Model ----------------------------
(***************************************************************************)
(* A model of platformio_auto_config.py: the command `cli` that lets a     *)
(* user pick a serial device and stores it as `upload_port` in the         *)
(* override configuration file of a PlatformIO project.                    *)
(*                                                                         *)
(* Encoding of Python values.                                              *)
(*   A Python str is a sequence of atoms.  An atom is one character, or,   *)
(*   for file names, an indivisible run of characters ("tty.",             *)
(*   "usbserial", "-A"): the program only asks whether a name starts with  *)
(*   "tty." and whether it contains "usbserial", and both questions are    *)
(*   answered atom by atom.                                                *)
(*   A value that may be a str, an int, the sentinel False or a raised     *)
(*   exception is a record [t, s, n] built by PyStr, PyInt, PyFalse and    *)
(*   PyRaise.  Python indices are 0-based; TLA+ sequences are 1-based.     *)
(***************************************************************************)
EXTENDS Integers, Sequences, FiniteSets, TLC

\* ------------------------------------------------------------------ values

PyStr(s) == [t |-> "str", s |-> s, n |-> 0]
PyInt(n) == [t |-> "int", s |-> <<>>, n |-> n]
PyFalse == [t |-> "bool", s |-> <<>>, n |-> 0]
PyRaise(name) == [t |-> "raise", s |-> <<name>>, n |-> 0]

\* Python truthiness of a value: bool(v).
Truthy(v) ==
    CASE v.t = "str" -> v.s # <<>>
      [] v.t = "int" -> v.n # 0
      [] OTHER -> FALSE

Whitespace == {" ", "\t"}

RECURSIVE LStrip(_)
LStrip(s) ==
    IF s # <<>> /\ Head(s) \in Whitespace THEN LStrip(Tail(s)) ELSE s

RECURSIVE RStrip(_)
RStrip(s) ==
    IF s # <<>> /\ s[Len(s)] \in Whitespace
    THEN RStrip(SubSeq(s, 1, Len(s) - 1))
    ELSE s

\* str.strip()
Strip(s) == RStrip(LStrip(s))

LowerOf(c) ==
    CASE c = "Y" -> "y"
      [] c = "E" -> "e"
      [] c = "S" -> "s"
      [] OTHER -> c

\* str.lower()
Lower(s) == [i \in 1..Len(s) |-> LowerOf(s[i])]

DigitChars == <<"0", "1", "2", "3", "4", "5", "6", "7", "8", "9">>

IsDigit(c) == \E i \in 1..Len(DigitChars) : DigitChars[i] = c

DigitVal(c) == (CHOOSE i \in 1..Len(DigitChars) : DigitChars[i] = c) - 1

\* The digits of an int literal: digits, with single underscores between them.
IsDigitRun(b) ==
    /\ b # <<>>
    /\ \A i \in 1..Len(b) : IsDigit(b[i]) \/ b[i] = "_"
    /\ IsDigit(b[1]) /\ IsDigit(b[Len(b)])
    /\ \A i \in 1..(Len(b) - 1) : ~(b[i] = "_" /\ b[i + 1] = "_")

RECURSIVE DigitRunValue(_)
DigitRunValue(b) ==
    IF b = <<>> THEN 0
    ELSE LET c == b[Len(b)]
             rest == SubSeq(b, 1, Len(b) - 1)
         IN IF c = "_" THEN DigitRunValue(rest)
            ELSE 10 * DigitRunValue(rest) + DigitVal(c)

\* int(s) for a str s: surrounding whitespace is dropped, one sign is allowed,
\* anything else raises ValueError.
PyIntOfStr(s) ==
    LET w == Strip(s)
        signed == w # <<>> /\ Head(w) \in {"+", "-"}
        body == IF signed THEN Tail(w) ELSE w
    IN IF ~IsDigitRun(body) THEN PyRaise("ValueError")
       ELSE IF signed /\ Head(w) = "-" THEN PyInt(0 - DigitRunValue(body))
       ELSE PyInt(DigitRunValue(body))

ListItem_NoNegative(l, i) ==
    IF 0 <= i /\ i < Len(l) THEN PyStr(l[i + 1]) ELSE PyRaise("IndexError")

\* l[i] of a Python list: negative indices count from the end, an index outside
\* [-len(l), len(l) - 1] raises IndexError.
ListItem(l, i) ==
    IF 0 <= i /\ i < Len(l) THEN PyStr(l[i + 1])
    ELSE IF 0 - Len(l) <= i /\ i < 0 THEN PyStr(l[Len(l) + i + 1])
    ELSE PyRaise("IndexError")

\* get_tty_from_list: ".get for lists".
get_tty_from_list(tty_list_object, indexof) ==
    IF indexof.t = "str" /\ Strip(indexof.s) = <<>> THEN PyFalse
    ELSE LET converted == IF indexof.t = "int" THEN indexof
                          ELSE PyIntOfStr(indexof.s)
         IN IF converted.t = "raise" THEN PyFalse
            ELSE LET retval == ListItem(tty_list_object, converted.n)
                 IN IF retval.t = "raise" THEN PyFalse ELSE retval

\* ------------------------------------------------------------ configparser

(***************************************************************************)
(* An INI file is a sequence of lines; a ConfigParser holds the DEFAULT    *)
(* options and the sections in insertion order, each a sequence of         *)
(* [key, val] options in insertion order.  Values hold no "%", so          *)
(* interpolation leaves them as they are.                                  *)
(***************************************************************************)
DEFAULTSECT == "DEFAULT"

HeaderLine(name) == [k |-> "header", name |-> name, val |-> <<>>]
OptionLine(key, val) == [k |-> "option", name |-> key, val |-> val]
CommentLine == [k |-> "comment", name |-> "", val |-> <<>>]
BlankLine == [k |-> "blank", name |-> "", val |-> <<>>]

\* configparser.ConfigParser()
EmptyConfig == [defaults |-> <<>>, sections |-> <<>>]

OptIndex(opts, key) ==
    IF \E i \in 1..Len(opts) : opts[i].key = key
    THEN CHOOSE i \in 1..Len(opts) : opts[i].key = key
    ELSE 0

SectIndex(cfg, name) ==
    IF \E i \in 1..Len(cfg.sections) : cfg.sections[i].name = name
    THEN CHOOSE i \in 1..Len(cfg.sections) : cfg.sections[i].name = name
    ELSE 0

\* dict[key] = val: a key already there keeps its place.
OptsSet(opts, key, val) ==
    IF OptIndex(opts, key) = 0 THEN Append(opts, [key |-> key, val |-> val])
    ELSE [opts EXCEPT ![OptIndex(opts, key)].val = val]

\* `section in config`
HasSection(cfg, name) == name = DEFAULTSECT \/ SectIndex(cfg, name) # 0

\* config.has_option(section, option)
has_option(cfg, section, option) ==
    IF section = "" \/ section = DEFAULTSECT
    THEN OptIndex(cfg.defaults, option) # 0
    ELSE IF SectIndex(cfg, section) = 0 THEN FALSE
    ELSE \/ OptIndex(cfg.sections[SectIndex(cfg, section)].opts, option) # 0
         \/ OptIndex(cfg.defaults, option) # 0

\* config.get(section, option): the section's own value, else the DEFAULT one.
config_get(cfg, section, option) ==
    LET own == IF SectIndex(cfg, section) = 0 THEN <<>>
               ELSE cfg.sections[SectIndex(cfg, section)].opts
    IN IF SectIndex(cfg, section) = 0 /\ section # DEFAULTSECT
       THEN PyRaise("NoSectionError")
       ELSE IF OptIndex(own, option) # 0 THEN PyStr(own[OptIndex(own, option)].val)
       ELSE IF OptIndex(cfg.defaults, option) # 0
       THEN PyStr(cfg.defaults[OptIndex(cfg.defaults, option)].val)
       ELSE PyRaise("NoOptionError")

\* config[section] = {}
SetSectionEmpty(cfg, name) ==
    IF name = DEFAULTSECT THEN [cfg EXCEPT !.defaults = <<>>]
    ELSE IF SectIndex(cfg, name) # 0
    THEN [cfg EXCEPT !.sections[SectIndex(cfg, name)].opts = <<>>]
    ELSE [cfg EXCEPT !.sections = Append(@, [name |-> name, opts |-> <<>>])]

\* config[section][option] = value, given that config[section] did not raise:
\* RawConfigParser.set stores in the DEFAULT options when the name is empty.
SetOption(cfg, section, option, value) ==
    IF section = "" \/ section = DEFAULTSECT
    THEN [cfg EXCEPT !.defaults = OptsSet(@, option, value)]
    ELSE [cfg EXCEPT !.sections[SectIndex(cfg, section)].opts =
                          OptsSet(@, option, value)]

\* ConfigParser.read of an existing file, line by line.  cur is the section the
\* options go to: 0 before any header, -1 for DEFAULT, else its index.
RECURSIVE ParseLines(_, _, _)
ParseLines(lines, cfg, cur) ==
    IF lines = <<>> THEN [ok |-> TRUE, cfg |-> cfg]
    ELSE LET l == Head(lines)
         IN CASE l.k \in {"comment", "blank"} -> ParseLines(Tail(lines), cfg, cur)
              [] l.k = "header" ->
                   IF l.name = "" THEN [ok |-> FALSE, cfg |-> cfg]
                   ELSE IF l.name = DEFAULTSECT THEN ParseLines(Tail(lines), cfg, -1)
                   ELSE IF SectIndex(cfg, l.name) # 0 THEN [ok |-> FALSE, cfg |-> cfg]
                   ELSE ParseLines(Tail(lines),
                                   SetSectionEmpty(cfg, l.name),
                                   Len(cfg.sections) + 1)
              [] OTHER ->
                   IF cur = 0 THEN [ok |-> FALSE, cfg |-> cfg]
                   ELSE LET opts == IF cur = -1 THEN cfg.defaults
                                    ELSE cfg.sections[cur].opts
                            new == OptsSet(opts, l.name, Strip(l.val))
                        IN IF OptIndex(opts, l.name) # 0
                           THEN [ok |-> FALSE, cfg |-> cfg]
                           ELSE IF cur = -1
                           THEN ParseLines(Tail(lines),
                                           [cfg EXCEPT !.defaults = new], cur)
                           ELSE ParseLines(Tail(lines),
                                           [cfg EXCEPT !.sections[cur].opts = new],
                                           cur)

config_read(lines) == ParseLines(lines, EmptyConfig, 0)

OptionLines(opts) == [i \in 1..Len(opts) |-> OptionLine(opts[i].key, opts[i].val)]

RECURSIVE SectionLines(_)
SectionLines(sections) ==
    IF sections = <<>> THEN <<>>
    ELSE <<HeaderLine(Head(sections).name)>> \o OptionLines(Head(sections).opts)
         \o <<BlankLine>> \o SectionLines(Tail(sections))

\* config.write(file_handle): DEFAULT first when it has options, then every
\* section, each followed by a blank line.
config_write(cfg) ==
    (IF cfg.defaults = <<>> THEN <<>>
     ELSE <<HeaderLine(DEFAULTSECT)>> \o OptionLines(cfg.defaults) \o <<BlankLine>>)
    \o SectionLines(cfg.sections)

\* ------------------------------------------------------------- environment

Dev(filename) == <<"/dev/">> \o filename

UsbA == <<"tty.", "usbserial", "-A">>
UsbB == <<"tty.", "usbserial", "-B">>
Modem == <<"tty.", "modem">>
DebugConsole == <<"tty.", "debug-console">>
WlanDebug == <<"tty.", "wlan-debug">>
CuUsbA == <<"cu.", "usbserial", "-A">>

IGNORE_DEVICES_BY_DEFAULT ==
    { Dev(<<"tty.", "Bluetooth-Incoming-Port">>), Dev(WlanDebug), Dev(DebugConsole) }

\* Results of os.listdir('/dev/') the program is run against (any order).
Listings ==
    { <<>>,
      <<DebugConsole, UsbA>>,
      <<UsbA, Modem, UsbB>>,
      <<CuUsbA, Modem, WlanDebug>> }

\* Contents of the override-config file before a run (none when it is absent).
InitialFiles ==
    { <<>>,
      <<HeaderLine("common"), OptionLine("upload_port", Dev(UsbA))>>,
      <<CommentLine, HeaderLine("common"), OptionLine("upload_port", <<>>),
        BlankLine, HeaderLine("env"), OptionLine("build_flags", <<"-O2", " ">>)>>,
      <<HeaderLine(DEFAULTSECT), OptionLine("upload_port", Dev(Modem)),
        HeaderLine("env")>>,
      <<OptionLine("upload_port", Dev(Modem))>> }

\* Values of --section: given, defaulted ("common") or empty.
CliSections == {"common", "env", ""}

\* The [settings] options of the two optional files of this script.
LocalCfgs == { <<>>, <<[key |-> "section", val |-> "env"]>> }
HomeCfgs == { <<>>, <<[key |-> "section", val |-> ""]>> }

\* Lines the user may type at a prompt.
UserInputs ==
    { <<>>, <<" ">>, <<"0">>, <<"1", " ">>, <<"-", "1">>, <<"9">>, <<"y">>,
      <<"Y", "E", "S">> }

\* What input() meets at the end of the input, where it raises EOFError.
EOF == <<"EOF">>

\* Bound on the passes through the selection loop of one run.
MaxIterations == 2

\* ----------------------------------------------------------------- program

VARIABLES
    debug, test, section,            \* the command line
    localCfg, homeCfg,               \* the script's own configuration files
    sysname, devExists, devdir,      \* os.uname(), /dev/ and its listing
    markerExists, disk,              \* platformio.ini, the override-config file
    stdin, inputs_read, run,         \* lines typed so far, lines read by this run
    script_config, config, upload_port, new_device,
    default, tty_list, printed, user_response,
    pc, last_error,
    enumerations, writes, disk0,     \* history: calls, writes, the file at start
    arg_list, arg_index, retval      \* a call of get_tty_from_list on its own

vars ==
    << debug, test, section, localCfg, homeCfg, sysname, devExists, devdir,
       markerExists, disk, stdin, inputs_read, run, script_config, config,
       upload_port, new_device, default, tty_list, printed, user_response,
       pc, last_error, enumerations, writes, disk0, arg_list, arg_index, retval >>

cliVars == << debug, test, section >>
envVars == << localCfg, homeCfg, sysname, devExists, markerExists >>
callVars == << arg_list, arg_index, retval >>
loopVars == << default, tty_list, printed, user_response >>

Absent == [exists |-> FALSE, lines |-> <<>>]
File(lines) == [exists |-> TRUE, lines |-> lines]

DefaultSettings ==
    [platformio_file |-> "platformio.ini",
     config_file |-> "platformio_override.ini",
     section |-> "common"]

RECURSIVE ReadSettings(_, _)
ReadSettings(settings, opts) ==
    IF opts = <<>> THEN settings
    ELSE ReadSettings([settings EXCEPT ![Head(opts).key] = Head(opts).val],
                      Tail(opts))

\* load_script_config: the defaults, then the local file, then the home file,
\* then a --section that is not empty.
load_script_config(sect, defaults, local, home) ==
    LET read == ReadSettings(ReadSettings(defaults, local), home)
    IN IF sect # "" THEN [read EXCEPT !.section = sect] ELSE read

\* get_device_list: [failed, list]; failed stands for the return of False.
get_device_list(dbg, sys, devOk, listing) ==
    IF sys \notin {"Darwin"} THEN [failed |-> TRUE, list |-> <<>>]
    ELSE IF ~devOk THEN [failed |-> TRUE, list |-> <<>>]
    ELSE LET names == SelectSeq(listing, LAMBDA f : f # <<>> /\ Head(f) = "tty.")
             paths == [i \in 1..Len(names) |-> Dev(names[i])]
         IN [failed |-> FALSE,
             list |-> IF ~dbg
                      THEN SelectSeq(paths,
                                     LAMBDA e : e \notin IGNORE_DEVICES_BY_DEFAULT)
                      ELSE paths]

\* 'usbserial' in tty
IsPreferred(tty) == \E i \in 1..Len(tty) : tty[i] = "usbserial"

\* enumerate(tty_list)
Enumerate(l) == [i \in 1..Len(l) |-> [indexof |-> i - 1, tty |-> l[i]]]

\* The lines show_device_list logs: the usbserial entries, then the entries
\* not seen in the first pass.
ShowPrinted(l) ==
    LET first == SelectSeq(Enumerate(l), LAMBDA e : IsPreferred(e.tty))
        seen_ttys == { first[i].tty : i \in 1..Len(first) }
    IN first \o SelectSeq(Enumerate(l), LAMBDA e : e.tty \notin seen_ttys)

ShowDefault_First(l) ==
    LET first == SelectSeq(Enumerate(l), LAMBDA e : IsPreferred(e.tty))
    IN IF first = <<>> THEN -1 ELSE first[1].indexof

\* The default show_device_list returns: the index assigned last in the first
\* pass, -1 when there was none.
ShowDefault(l) ==
    LET first == SelectSeq(Enumerate(l), LAMBDA e : IsPreferred(e.tty))
    IN IF first = <<>> THEN -1 ELSE first[Len(first)].indexof

NotInProject_Never(file, marker) == FALSE

\* load_config, lines 107-108: the override-config file is missing and so is
\* the marker file.
NotInProject(file, marker) == ~file.exists /\ ~marker

\* load_config, lines 120-121.
EnsureSection(cfg, sect) ==
    IF ~HasSection(cfg, sect) THEN SetSectionEmpty(cfg, sect) ELSE cfg

\* user_response.lower() in ('yes', 'y')
Confirms(response) == Lower(response) \in { <<"y", "e", "s">>, <<"y">> }

Selection_PortFirst(dflt, list, port, device, response) ==
    LET byPort == response = <<>> /\ Truthy(port)
        byDefault == dflt >= 0 /\ response = <<>> /\ ~byPort
        selected == byDefault \/ byPort
        chosen == IF byDefault THEN get_tty_from_list(list, PyInt(dflt))
                  ELSE IF byPort THEN port
                  ELSE device
    IN IF ~selected /\ Truthy(get_tty_from_list(list, PyStr(response)))
       THEN get_tty_from_list(list, PyStr(response))
       ELSE chosen

Selection_Unconditional(dflt, list, port, device, response) ==
    LET byDefault == dflt >= 0 /\ response = <<>>
        byPort == ~(dflt >= 0) /\ response = <<>> /\ Truthy(port)
        selected == byDefault \/ byPort
        chosen == IF byDefault THEN get_tty_from_list(list, PyInt(dflt))
                  ELSE IF byPort THEN port
                  ELSE device
    IN IF ~selected THEN get_tty_from_list(list, PyStr(response)) ELSE chosen

\* One pass of the loop of cli from the stripped response to the test of
\* new_device (lines 180-198): the new value of new_device.
Selection(dflt, list, port, device, response) ==
    LET byDefault == dflt >= 0 /\ response = <<>>
        byPort == ~(dflt >= 0) /\ response = <<>> /\ Truthy(port)
        selected == byDefault \/ byPort
        chosen == IF byDefault THEN get_tty_from_list(list, PyInt(dflt))
                  ELSE IF byPort THEN port
                  ELSE device
    IN IF ~selected /\ Truthy(get_tty_from_list(list, PyStr(response)))
       THEN get_tty_from_list(list, PyStr(response))
       ELSE chosen

LoopBreaks_Always(device) == TRUE

LoopBreaks_NotFalse(device) == device # PyFalse

\* `if new_device: break`
LoopBreaks(device) == Truthy(device)

\* What input() may meet now: in the first run any line the user may type, or
\* the end of the input; in a second run the same lines again, then the end.
InputLines ==
    IF run = 1 THEN UserInputs \cup { EOF }
    ELSE IF inputs_read < Len(stdin) THEN { stdin[inputs_read + 1] }
    ELSE { EOF }

Consume(line) ==
    /\ inputs_read' = IF line = EOF THEN inputs_read ELSE inputs_read + 1
    /\ stdin' = IF run = 1 /\ line # EOF THEN Append(stdin, line) ELSE stdin

\* The state cli starts from, whatever the command line and the environment.
Fresh ==
    /\ script_config = DefaultSettings
    /\ config = EmptyConfig
    /\ upload_port = PyFalse
    /\ new_device = PyStr(<<>>)
    /\ default = -1
    /\ tty_list = <<>>
    /\ printed = <<>>
    /\ user_response = <<>>
    /\ last_error = ""
    /\ inputs_read = 0
    /\ enumerations = 0
    /\ writes = 0

NoCall ==
    /\ arg_list = <<>>
    /\ arg_index = PyInt(0)
    /\ retval = PyFalse

Init ==
    /\ debug \in BOOLEAN
    /\ test \in BOOLEAN
    /\ section \in CliSections
    /\ localCfg \in LocalCfgs
    /\ homeCfg \in HomeCfgs
    /\ \/ sysname = "Darwin" /\ devExists = TRUE /\ devdir \in Listings
       \/ sysname = "Darwin" /\ devExists = FALSE /\ devdir = <<>>
       \/ sysname = "Linux" /\ devExists = TRUE /\ devdir = <<>>
    /\ \/ disk = Absent /\ markerExists \in BOOLEAN
       \/ disk \in { File(f) : f \in InitialFiles } /\ markerExists = TRUE
    /\ disk0 = disk
    /\ stdin = <<>>
    /\ run = 1
    /\ pc = "start"
    /\ Fresh
    /\ NoCall

\* cli, lines 157-165.
LoadScriptConfig ==
    /\ pc = "start"
    /\ script_config' = load_script_config(section, DefaultSettings, localCfg, homeCfg)
    /\ pc' = "load_config"
    /\ UNCHANGED << cliVars, envVars, callVars, loopVars, devdir, disk, stdin,
                    inputs_read, run, config, upload_port, new_device,
                    last_error, enumerations, writes, disk0 >>

\* load_config, lines 107-109: neither file exists.
LoadConfigNotProject ==
    /\ pc = "load_config"
    /\ NotInProject(disk, markerExists)
    /\ pc' = "exit"
    /\ last_error' = "You're not in a platformio dir, quitting"
    /\ UNCHANGED << cliVars, envVars, callVars, loopVars, devdir, disk, stdin,
                    inputs_read, run, script_config, config, upload_port,
                    new_device, enumerations, writes, disk0 >>

\* load_config, lines 107-115 and 120-122: the file is missing, the user is asked.
LoadConfigCreate ==
    /\ pc = "load_config"
    /\ ~disk.exists
    /\ ~NotInProject(disk, markerExists)
    /\ \E line \in InputLines :
          /\ Consume(line)
          /\ IF line = EOF
             THEN /\ pc' = "raised"
                  /\ last_error' = "EOFError"
                  /\ UNCHANGED config
             ELSE IF Confirms(Strip(line))
             THEN /\ config' = EnsureSection(
                                   SetSectionEmpty(EmptyConfig, script_config.section),
                                   script_config.section)
                  /\ pc' = "read_port"
                  /\ UNCHANGED last_error
             ELSE /\ pc' = "exit"
                  /\ last_error' = "User didn't confirm, bailing"
                  /\ UNCHANGED config
    /\ UNCHANGED << cliVars, envVars, callVars, loopVars, devdir, disk, run,
                    script_config, upload_port, new_device, enumerations,
                    writes, disk0 >>

\* load_config, lines 117-122: the file exists and is read.
LoadConfigRead ==
    /\ pc = "load_config"
    /\ disk.exists
    /\ LET read == config_read(disk.lines)
       IN IF ~read.ok
          THEN /\ pc' = "raised"
               /\ last_error' = "configparser.Error"
               /\ UNCHANGED config
          ELSE /\ config' = EnsureSection(read.cfg, script_config.section)
               /\ pc' = "read_port"
               /\ UNCHANGED last_error
    /\ UNCHANGED << cliVars, envVars, callVars, loopVars, devdir, disk, stdin,
                    inputs_read, run, script_config, upload_port, new_device,
                    enumerations, writes, disk0 >>

\* cli, lines 168-177.
ReadUploadPort ==
    /\ pc = "read_port"
    /\ LET got == IF has_option(config, section, "upload_port")
                  THEN config_get(config, section, "upload_port")
                  ELSE PyFalse
       IN IF got.t = "raise"
          THEN /\ pc' = "raised"
               /\ last_error' = got.s[1]
               /\ UNCHANGED upload_port
          ELSE /\ upload_port' = got
               /\ pc' = "enumerate"
               /\ UNCHANGED last_error
    /\ new_device' = PyStr(<<>>)
    /\ UNCHANGED << cliVars, envVars, callVars, loopVars, devdir, disk, stdin,
                    inputs_read, run, script_config, config, enumerations,
                    writes, disk0 >>

\* show_device_list, called at line 179.
ShowDeviceList ==
    /\ pc = "enumerate"
    /\ enumerations < MaxIterations
    /\ enumerations' = enumerations + 1
    /\ LET got == get_device_list(debug, sysname, devExists, devdir)
       IN IF got.failed \/ got.list = <<>>
          THEN /\ pc' = "exit"
               /\ last_error' = "Couldn't find any devices, quitting."
               /\ UNCHANGED << default, tty_list, printed >>
          ELSE /\ default' = ShowDefault(got.list)
               /\ tty_list' = got.list
               /\ printed' = ShowPrinted(got.list)
               /\ pc' = "prompt"
               /\ UNCHANGED last_error
    /\ UNCHANGED << cliVars, envVars, callVars, devdir, disk, stdin, inputs_read,
                    run, script_config, config, upload_port, new_device,
                    user_response, writes, disk0 >>

\* cli, lines 180-201: one prompt, its answer, and the test that ends the loop.
PromptSelect ==
    /\ pc = "prompt"
    /\ \E line \in InputLines :
          /\ Consume(line)
          /\ IF line = EOF
             THEN /\ pc' = "raised"
                  /\ last_error' = "EOFError"
                  /\ UNCHANGED << user_response, new_device >>
             ELSE /\ user_response' = Strip(line)
                  /\ new_device' = Selection(default, tty_list, upload_port,
                                             new_device, Strip(line))
                  /\ IF LoopBreaks(new_device')
                     THEN pc' = "write" /\ UNCHANGED last_error
                     ELSE /\ pc' = "enumerate"
                          /\ last_error' = "I'm not sure what you selected"
    /\ UNCHANGED << cliVars, envVars, callVars, devdir, disk, run, script_config,
                    config, upload_port, default, tty_list, printed,
                    enumerations, writes, disk0 >>

Persist_Appends(file, cfg) == File(file.lines \o config_write(cfg))

\* open(config_file, 'w') and config.write(file_handle): the file afterwards.
Persist(file, cfg) == File(config_write(cfg))

WriteBack_IgnoresTest(tst, file, cfg) == Persist(file, cfg)

\* cli, lines 208-212: the file after the last step.
WriteBack(tst, file, cfg) == IF tst THEN file ELSE Persist(file, cfg)

\* cli, lines 203-212.
SetAndWrite ==
    /\ pc = "write"
    /\ IF ~HasSection(config, section)
       THEN /\ pc' = "raised"
            /\ last_error' = "KeyError"
            /\ UNCHANGED << config, disk, writes >>
       ELSE /\ config' = SetOption(config, section, "upload_port", new_device.s)
            /\ pc' = "done"
            /\ UNCHANGED last_error
            /\ disk' = WriteBack(test, disk, config')
            /\ writes' = IF test THEN writes ELSE writes + 1
    /\ UNCHANGED << cliVars, envVars, callVars, loopVars, devdir, stdin,
                    inputs_read, run, script_config, upload_port, new_device,
                    enumerations, disk0 >>

\* The environment: devices come and go between two listings of /dev/.
DevChange ==
    /\ pc = "enumerate"
    /\ enumerations >= 1
    /\ sysname = "Darwin" /\ devExists
    /\ devdir' \in Listings \ {devdir}
    /\ UNCHANGED << cliVars, envVars, callVars, loopVars, disk, stdin,
                    inputs_read, run, script_config, config, upload_port,
                    new_device, pc, last_error, enumerations, writes, disk0 >>

Ended == pc \in {"done", "exit", "raised"}

\* The program is started again, with the same command line, in the same
\* environment, and the user types the same lines.
Rerun ==
    /\ Ended
    /\ run = 1
    /\ run' = 2
    /\ disk0' = disk
    /\ pc' = "start"
    /\ script_config' = DefaultSettings
    /\ config' = EmptyConfig
    /\ upload_port' = PyFalse
    /\ new_device' = PyStr(<<>>)
    /\ default' = -1
    /\ tty_list' = <<>>
    /\ printed' = <<>>
    /\ user_response' = <<>>
    /\ last_error' = ""
    /\ inputs_read' = 0
    /\ enumerations' = 0
    /\ writes' = 0
    /\ UNCHANGED << cliVars, envVars, callVars, devdir, disk, stdin >>

Program ==
    \/ LoadScriptConfig
    \/ LoadConfigNotProject
    \/ LoadConfigCreate
    \/ LoadConfigRead
    \/ ReadUploadPort
    \/ ShowDeviceList
    \/ PromptSelect
    \/ SetAndWrite

Next == Program \/ DevChange

Spec == Init /\ [][Next]_vars

NextTwice == Program \/ Rerun

SpecTwice == Init /\ [][NextTwice]_vars

\* ------------------------------------------- the two helpers on their own

\* Bounds of the inputs of the helpers.
MaxIndexLen == 3
MaxIndexInt == 4
MaxListLen == 3
MaxDevs == 3

SeqsUpTo(S, n) == UNION { [1..k -> S] : k \in 0..n }

IndexChars == {" ", "-", "+", "_", "0", "1", "2", "x"}

SomeDevices == <<Dev(Modem), Dev(UsbA), Dev(DebugConsole), Dev(UsbB), Dev(WlanDebug)>>

DevNames == {UsbA, UsbB, Modem, DebugConsole, CuUsbA}

\* cli has not started and does nothing.
Idle ==
    /\ test = FALSE
    /\ section = "common"
    /\ localCfg = <<>>
    /\ homeCfg = <<>>
    /\ markerExists = TRUE
    /\ disk = Absent
    /\ disk0 = disk
    /\ stdin = <<>>
    /\ run = 1
    /\ Fresh

InitIndex ==
    /\ Idle
    /\ debug = FALSE
    /\ sysname = "Darwin" /\ devExists = TRUE /\ devdir = <<>>
    /\ pc = "call"
    /\ arg_list \in { SubSeq(SomeDevices, 1, k) : k \in 0..MaxListLen }
    /\ arg_index \in { PyStr(s) : s \in SeqsUpTo(IndexChars, MaxIndexLen) }
                     \cup { PyInt(i) : i \in (0 - MaxIndexInt)..MaxIndexInt }
    /\ retval = PyFalse

\* A call get_tty_from_list(arg_list, arg_index).
CallGetTty ==
    /\ pc = "call"
    /\ retval' = get_tty_from_list(arg_list, arg_index)
    /\ pc' = "returned"
    /\ UNCHANGED << cliVars, envVars, loopVars, devdir, disk, stdin, inputs_read,
                    run, script_config, config, upload_port, new_device,
                    last_error, enumerations, writes, disk0, arg_list, arg_index >>

SpecIndex == InitIndex /\ [][CallGetTty]_vars

\* show_device_list(debug) on any listing of /dev/ without repeated names.
InitShow ==
    /\ Idle
    /\ NoCall
    /\ debug \in BOOLEAN
    /\ \/ sysname = "Darwin" /\ devExists = TRUE
          /\ devdir \in { l \in SeqsUpTo(DevNames, MaxDevs) :
                            \A i, j \in 1..Len(l) : i # j => l[i] # l[j] }
       \/ sysname = "Darwin" /\ devExists = FALSE /\ devdir = <<>>
       \/ sysname = "Linux" /\ devExists = TRUE /\ devdir = <<>>
    /\ pc = "enumerate"

SpecShow == InitShow /\ [][ShowDeviceList]_vars

\* ------------------------------------------------------------------ claims

InvalidResponse == "I'm not sure what you selected"
NoDevices == "Couldn't find any devices, quitting."

\* The option lines of the file that set upload_port.
PortLines(file) ==
    { i \in 1..Len(file.lines) :
        file.lines[i].k = "option" /\ file.lines[i].name = "upload_port" }

\* C1: the selection loop is left only with new_device a non-empty str, and the
\* upload_port that is set in the target section, and written to the file, is
\* that non-empty str, never "" and never False.
C1_SelectedDeviceNonEmpty ==
    /\ pc \in {"write", "done"} => new_device.t = "str" /\ new_device.s # <<>>
    /\ pc = "done" =>
          /\ config_get(config, section, "upload_port") = new_device
          /\ new_device # PyFalse /\ new_device.s # <<>>
    /\ writes >= 1 =>
          \E i \in PortLines(disk) :
              disk.lines[i].val = new_device.s /\ disk.lines[i].val # <<>>

C1_Witness == pc = "done" /\ ~test /\ writes = 1 /\ enumerations = 2

\* C2: the file is written at most once in a run, only in the last step and after
\* the loop ended with a valid selection; a run that ends earlier, or has not
\* come to its last step, leaves the file as it was at the start.
C2_WrittenOnceAtEnd ==
    /\ writes <= 1
    /\ writes = 1 => pc = "done" /\ Truthy(new_device)
    /\ writes = 0 => disk = disk0
    /\ pc \in {"exit", "raised"} => disk = disk0 /\ writes = 0

C2_Witness == pc = "done" /\ writes = 1 /\ disk # disk0

C2_WitnessEarlyExit == pc = "exit" /\ last_error = NoDevices /\ disk = disk0

\* C3: with --test the file on disk stays what it was before the run, absent
\* when it was absent, while the configuration in memory gets the upload_port.
C3_DryRunLeavesFile ==
    test =>
      /\ disk = disk0
      /\ writes = 0
      /\ pc = "done" => config_get(config, section, "upload_port") = new_device

C3_Witness ==
    /\ test /\ pc = "done" /\ ~disk.exists
    /\ config_get(config, section, "upload_port") = new_device

\* C4: a second run, without --test, on the file the first run left, with the
\* same lines typed and the same listing of /dev/, ends with the file the first
\* run left.
C4_Idempotent == (run = 2 /\ Ended /\ ~test) => disk = disk0

C4_Witness ==
    /\ run = 2 /\ pc = "done" /\ ~test /\ writes = 1
    /\ Len(stdin) >= 2 /\ default < 0

\* C5: from the moment load_config has returned, the section named by
\* --section, which cli reads upload_port from and sets it in, is a section of
\* the configuration in memory.
C5_TargetSectionExists ==
    pc \in {"read_port", "enumerate", "prompt", "write", "done"}
        => HasSection(config, section)

\* C6: without the override-config file and without the marker file the run
\* ends in the fatal error of load_config, no line of input was read and /dev/
\* was never listed.
C6_NotInProjectNoPrompt ==
    (~disk0.exists /\ ~markerExists /\ pc \notin {"start", "load_config"}) =>
        /\ pc = "exit"
        /\ last_error = "You're not in a platformio dir, quitting"
        /\ inputs_read = 0 /\ stdin = <<>>
        /\ enumerations = 0
        /\ config = EmptyConfig /\ ~disk.exists

C6_Witness ==
    ~disk0.exists /\ ~markerExists /\ pc = "exit"

UsbSerialPaths == { Dev(UsbA), Dev(UsbB) }

\* C7: show_device_list logs every entry of a non-empty list once, with its
\* index in the list, the usbserial entries before the others and each group in
\* the order of the list, and returns the index of the last usbserial entry, or
\* -1 when there is none.
C7_ShowDeviceList ==
    pc = "prompt" =>
      LET n == Len(tty_list)
          pref(j) == printed[j].tty \in UsbSerialPaths
          prefIdx == { i \in 0..(n - 1) : tty_list[i + 1] \in UsbSerialPaths }
      IN /\ n > 0
         /\ Len(printed) = n
         /\ \A j \in 1..n :
               /\ printed[j].indexof \in 0..(n - 1)
               /\ printed[j].tty = tty_list[printed[j].indexof + 1]
         /\ \A j, k \in 1..n :
               /\ j < k => printed[j].indexof # printed[k].indexof
               /\ (pref(j) /\ ~pref(k)) => j < k
               /\ (j < k /\ pref(j) = pref(k))
                      => printed[j].indexof < printed[k].indexof
         /\ IF prefIdx = {} THEN default = -1
            ELSE default \in prefIdx /\ \A i \in prefIdx : i <= default

C7_Witness ==
    /\ pc = "prompt"
    /\ tty_list = <<Dev(UsbA), Dev(Modem), Dev(UsbB)>>
    /\ default = 2
    /\ printed = << [indexof |-> 0, tty |-> Dev(UsbA)],
                    [indexof |-> 2, tty |-> Dev(UsbB)],
                    [indexof |-> 1, tty |-> Dev(Modem)] >>

IndexIsBlank ==
    /\ arg_index.t = "str"
    /\ \A i \in 1..Len(arg_index.s) : arg_index.s[i] \in Whitespace

IndexNumber == IF arg_index.t = "int" THEN arg_index ELSE PyIntOfStr(arg_index.s)

\* C8: get_tty_from_list never raises; it returns False for a blank str, for a
\* str that int() refuses and for an index outside [-len, len - 1], and else the
\* element at the index, a negative index counting from the end.
C8_GetTtyFromList ==
    pc = "returned" =>
      LET n == Len(arg_list)
          i == IndexNumber.n
      IN /\ retval.t # "raise"
         /\ IF IndexIsBlank \/ IndexNumber.t = "raise" \/ i < 0 - n \/ i > n - 1
            THEN retval = PyFalse
            ELSE retval = PyStr(arg_list[IF i >= 0 THEN i + 1 ELSE n + i + 1])
         /\ arg_index = PyStr(<<"-", "1">>) /\ n >= 1 => retval = PyStr(arg_list[n])
         /\ arg_index = PyStr(<<" ", "2">>) /\ n = 3 => retval = PyStr(arg_list[3])
         /\ arg_index = PyStr(<<"+", "0">>) /\ n >= 1 => retval = PyStr(arg_list[1])
         /\ arg_index \in { PyStr(<<"x">>), PyStr(<<"1", "x">>), PyStr(<<"-">>),
                            PyStr(<<"-", " ", "1">>), PyStr(<<"1", "_", "0">>),
                            PyStr(<<"_", "1">>), PyStr(<<"\t">>), PyStr(<<>>) }
              => retval = PyFalse

C8_Witness ==
    /\ pc = "returned"
    /\ arg_index = PyStr(<<"-", "2">>)
    /\ Len(arg_list) = 3
    /\ retval = PyStr(arg_list[2])

\* A pass of the loop that read a line and came to the test of new_device.
AnsweredPrompt == pc = "prompt" /\ pc' \in {"write", "enumerate"}

\* C9: a blank answer selects tty_list[default] when there is a default, whatever
\* upload_port was; without a default it selects the upload_port read from the
\* configuration when that is a non-empty value; with neither it selects
\* nothing and the pass ends as an invalid response.
C9_BlankInput ==
    [][ (AnsweredPrompt /\ user_response' = <<>>) =>
          IF default >= 0
          THEN new_device' = PyStr(tty_list[default + 1]) /\ pc' = "write"
          ELSE IF upload_port # PyFalse /\ upload_port.s # <<>>
          THEN new_device' = upload_port /\ pc' = "write"
          ELSE /\ new_device' = new_device
               /\ pc' = "enumerate"
               /\ last_error' = InvalidResponse ]_vars

C9_Witness ==
    /\ pc = "write" /\ user_response = <<>>
    /\ default >= 0 /\ Truthy(upload_port)
    /\ new_device = PyStr(tty_list[default + 1]) /\ new_device # upload_port

C9_WitnessPort ==
    /\ pc = "write" /\ user_response = <<>> /\ default < 0
    /\ new_device = upload_port

\* An answer that is not blank and is no index of the list shown.
InputError(response, list) ==
    /\ response # <<>>
    /\ LET number == PyIntOfStr(response)
       IN \/ number.t = "raise"
          \/ number.n < 0 - Len(list)
          \/ number.n > Len(list) - 1

\* The pass before ended in an input error.
AfterInputError ==
    /\ pc = "enumerate"
    /\ last_error = InvalidResponse
    /\ InputError(user_response, tty_list)

ListedNow == get_device_list(debug, sysname, devExists, devdir)

\* An input error ends the pass with an error logged and nothing else changed.
C10_ErrorKeepsState ==
    [][ (AnsweredPrompt /\ InputError(user_response', tty_list)) =>
          /\ pc' = "enumerate"
          /\ last_error' = InvalidResponse
          /\ new_device' = new_device
          /\ config' = config
          /\ disk' = disk /\ writes' = writes ]_vars

\* Every pass lists /dev/ anew, and an index selects from that listing only.
C10_SelectsFromNewList ==
    /\ [][ (pc = "enumerate" /\ pc' = "prompt") => tty_list' = ListedNow.list ]_vars
    /\ [][ (AnsweredPrompt /\ pc' = "write" /\ user_response' # <<>>) =>
             /\ tty_list = ListedNow.list
             /\ \E i \in 1..Len(tty_list) : new_device' = PyStr(tty_list[i]) ]_vars

\* C10, as stated: after an input error nothing is changed, the devices are
\* listed again and the user is asked again.
C10_InputErrorPromptsAgain ==
    /\ C10_ErrorKeepsState
    /\ C10_SelectsFromNewList
    /\ [][ (AfterInputError /\ pc' # pc) => pc' = "prompt" ]_vars

\* C10, amended: after an input error nothing is changed and the devices are
\* listed again; the user is asked again when that listing has a device, and
\* the run ends with the no-devices error when it has none.
C10_InputErrorRecoverable ==
    /\ C10_ErrorKeepsState
    /\ C10_SelectsFromNewList
    /\ [][ (AfterInputError /\ pc' # pc) =>
             IF ~ListedNow.failed /\ ListedNow.list # <<>>
             THEN pc' = "prompt" /\ last_error' = InvalidResponse
             ELSE pc' = "exit" /\ last_error' = NoDevices ]_vars

C10_Witness ==
    /\ pc = "write" /\ enumerations = 2
    /\ last_error = InvalidResponse
    /\ user_response # <<>>
    /\ tty_list = <<Dev(UsbA), Dev(Modem), Dev(UsbB)>>
    /\ new_device = PyStr(Dev(UsbB))

=============================================================================
